---------------------------- MODULE Spec2Model ----------------------------
(***************************************************************************)
(* State-machine model of CPVRClients (xbmc/pvr/addons/PVRClients.cpp):    *)
(* the registry m_clientMap, the reconciliation pass UpdateAddons with     *)
(* StopClient, and the fan-out dispatchers ForCreatedClients / ForClients. *)
(*                                                                         *)
(* A reconciliation pass is a job: it runs as a sequence of steps, one per *)
(* critical section or client call of the code.  The add-on manager, the   *)
(* client objects (CPVRClient) and the PVR manager are collaborators whose *)
(* code is outside PVRClients.cpp; they are modelled by what the callers   *)
(* in PVRClients.cpp rely on.                                              *)
(***************************************************************************)
EXTENDS Integers, Sequences, FiniteSets, TLC

(***************************************************************************)
(* Bounds of the model.                                                    *)
(***************************************************************************)
MaxInstanceId == 2      \* instance ids of the multi-instance add-on: 1..MaxInstanceId
MaxGen == 2             \* client objects that can exist at once per (addon, instance)

(***************************************************************************)
(* Program constants.                                                      *)
(***************************************************************************)
ADDON_SINGLETON_INSTANCE_ID == 0
ADDON_FIRST_INSTANCE_ID == 1
PVR_INVALID_CLIENT_ID == -2
NoClientId == -1         \* GetClientId's "not found"
INT_MIN == -2147483647 - 1

\* The inventory, in the order GetAddonInfos returns it.
AddonOrder == <<"pvr.a", "pvr.b">>
AddonIds == {AddonOrder[k] : k \in 1..Len(AddonOrder)}
\* "pvr.b" supports several instances; "pvr.a" has the singleton instance only.
SupportsInstances(addonID) == addonID = "pvr.b"
InstanceIdsOf(addonID) ==
  IF SupportsInstances(addonID) THEN ADDON_FIRST_INSTANCE_ID..MaxInstanceId
  ELSE {ADDON_SINGLETON_INSTANCE_ID}
DefaultInstances(addonID) ==
  IF SupportsInstances(addonID) THEN {ADDON_FIRST_INSTANCE_ID}
  ELSE {ADDON_SINGLETON_INSTANCE_ID}
InstanceIds == UNION {InstanceIdsOf(a) : a \in AddonIds}
Pairs == {p \in AddonIds \X InstanceIds : p[2] \in InstanceIdsOf(p[1])}

\* A client object (a CPVRClient on the heap) is named by its add-on, its
\* instance and a generation number.
Objs == {o \in AddonIds \X InstanceIds \X (1..MaxGen) : o[2] \in InstanceIdsOf(o[1])}
NoObj == <<"", -1, 0>>
ObjAddon(o) == o[1]
ObjInstance(o) == o[2]

JobIds == {1, 2}

ADDON_STATUS == {"OK", "LOST_CONNECTION", "PERMANENT_FAILURE"}

VARIABLES
  installed,        \* add-ons of type PVR the add-on manager knows (enabled or not)
  disabled,         \* add-ons the add-on manager has disabled
  knownInstances,   \* addon -> its known instance ids
  instanceSetting,  \* (addon, instance) -> the instance's "enabled" setting
  hasher,           \* std::hash<std::string>, low 32 bits of each hashed string
  overflow,         \* what the build does when -iClientId overflows
  m_clientMap,      \* the registry: client id -> client object
  heap,             \* client object -> its state
  inserted,         \* history: ids inserted into the registry and not erased since
  evicted,          \* history: a client has been erased from the registry and destroyed
  unchanged,        \* history: a pass has returned and the inventory is as it left it
  permanentlyFailed, \* history: the client objects whose Create failed permanently in a
                    \* pass that has returned, the add-on being disabled ever since
  pc,               \* job -> its position in UpdateAddons
  atBegin,          \* history: job -> the registry as the pass's classification saw it
  args,             \* job -> (changedAddonId, changedInstanceId)
  addonsToCreate,   \* job -> sequence of <<client object, client id>>
  addonsToReCreate, \* job -> sequence of <<addon, instance>>
  addonsToDestroy,  \* job -> sequence of <<addon, instance>>
  idx,              \* job -> position in the list being applied
  log,              \* job -> what the pass has called so far
  dpc,              \* the caller's position in the operation it runs
  dfn,              \* the operation the caller runs
  dreq,             \* ForClients: the requested clients
  dset,             \* ForCreatedClients: clientsReady, as <<client id, client object>>
  didx,             \* the caller's position in the list it walks
  failedClients,    \* the caller's failedClients
  lastError,        \* the caller's lastError
  dcalls,           \* what the caller's operation has called so far
  connState,        \* client -> its connection state and the one before it
  lastChange,       \* the arguments of the last ConnectionStateChange call
  eventLogJobs      \* the jobs that call handed to the job manager

envVars == <<installed, disabled, knownInstances, instanceSetting>>
regVars == <<m_clientMap, heap, inserted, evicted>>
jobVars == <<pc, atBegin, args, addonsToCreate, addonsToReCreate, addonsToDestroy, idx, log>>
callerVars == <<dpc, dfn, dreq, dset, didx, failedClients, lastError, dcalls>>
notifierVars == <<connState, lastChange, eventLogJobs>>
vars == <<envVars, hasher, overflow, notifierVars, unchanged, permanentlyFailed, regVars, jobVars, callerVars>>

(***************************************************************************)
(* Helpers.                                                                *)
(***************************************************************************)
Min(S) == CHOOSE x \in S : \A y \in S : x <= y

RECURSIVE SortedSeq(_)
SortedSeq(S) == IF S = {} THEN <<>> ELSE <<Min(S)>> \o SortedSeq(S \ {Min(S)})

Range(s) == {s[k] : k \in 1..Len(s)}

RECURSIVE Flatten(_)
Flatten(ss) == IF ss = <<>> THEN <<>> ELSE Head(ss) \o Flatten(Tail(ss))

(***************************************************************************)
(* Client id derivation.                                                   *)
(***************************************************************************)
\* The instance id put before the add-on id from the first instance on.
HashedString_PrefixFromFirst(addonID, instanceID) ==
  (IF instanceID >= ADDON_FIRST_INSTANCE_ID THEN ToString(instanceID) \o "@" ELSE "")
    \o addonID

\* The string handed to the hasher.
HashedString(addonID, instanceID) ==
  (IF instanceID > ADDON_FIRST_INSTANCE_ID THEN ToString(instanceID) \o "@" ELSE "")
    \o addonID

HashedStrings == {HashedString(p[1], p[2]) : p \in Pairs}

\* The low 32 bits of a size_t value: bit 31 and the 31 bits below it.
\* static_cast<int> keeps them as a two's complement value.
StaticCastInt(h) == IF h.bit31 = 1 THEN (h.low - 1073741824) - 1073741824 ELSE h.low

\* -iClientId; for INT_MIN the negation overflows, which is undefined: a
\* build either wraps around, to INT_MIN, or traps (see Aborts).
Negate(i) == IF i = INT_MIN THEN INT_MIN ELSE 0 - i

ClientIdFromAddonIdAndInstanceId(addonID, instanceID) ==
  LET iClientId == StaticCastInt(hasher[HashedString(addonID, instanceID)])
  IN IF iClientId < 0 THEN Negate(iClientId) ELSE iClientId

\* What a build can do on the overflow of line 46.
OverflowOutcomes == {"wraps", "traps"}

\* The derivation does not return: the negation overflows in a build that
\* traps, and the process ends.
Aborts(addonID, instanceID) ==
  /\ overflow = "traps"
  /\ StaticCastInt(hasher[HashedString(addonID, instanceID)]) = INT_MIN

\* A hasher without collisions on the strings of the model.  The hash of
\* "pvr.b" truncates to a negative int (-5), the others to positive ints.
RegularHasher ==
  [s \in HashedStrings |->
     LET p == CHOOSE q \in Pairs : HashedString(q[1], q[2]) = s
     IN IF p[1] = "pvr.a" THEN [bit31 |-> 0, low |-> 7]
        ELSE IF p[2] <= ADDON_FIRST_INSTANCE_ID THEN [bit31 |-> 1, low |-> 2147483643]
        ELSE [bit31 |-> 0, low |-> 10 + p[2]]]

\* The hashers of the model: the regular one, one under which the hash of
\* "pvr.a" truncates to 0, one under which it truncates to INT_MIN, one under
\* which the hash of "pvr.b" truncates to INT_MIN, and one under which two
\* instances of "pvr.b" have the same hash.
Hashers ==
  {RegularHasher,
   [RegularHasher EXCEPT !["pvr.a"] = [bit31 |-> 0, low |-> 0]],
   [RegularHasher EXCEPT !["pvr.a"] = [bit31 |-> 1, low |-> 0]],
   [RegularHasher EXCEPT ![HashedString("pvr.b", ADDON_FIRST_INSTANCE_ID)] =
                            [bit31 |-> 1, low |-> 0]],
   [RegularHasher EXCEPT ![HashedString("pvr.b", ADDON_FIRST_INSTANCE_ID + 1)] =
                            RegularHasher[HashedString("pvr.b", ADDON_FIRST_INSTANCE_ID)]]}

(***************************************************************************)
(* Client objects (CPVRClient).                                            *)
(***************************************************************************)
\* A slot of the heap holding no object.
FreeClient ==
  [live |-> FALSE, cid |-> PVR_INVALID_CLIENT_ID,
   ready |-> FALSE, ignore |-> FALSE, status |-> "none"]

\* std::make_shared<CPVRClient>(addon, instanceId): created, not yet Create()d.
NewClient == [FreeClient EXCEPT !.live = TRUE]

\* CPVRClient::Create(iClientId): the client takes the id; it is ready to use
\* exactly when the add-on instance came up with ADDON_STATUS_OK.  status keeps
\* what the client's last Create returned.
ClientCreate(c, iClientId, status) ==
  [c EXCEPT !.cid = iClientId, !.ready = (status = "OK"), !.ignore = FALSE,
            !.status = status]

\* CPVRClient::Destroy(): the instance is gone and the properties are reset.
ClientDestroy(c) ==
  [c EXCEPT !.ready = FALSE, !.cid = PVR_INVALID_CLIENT_ID, !.ignore = FALSE,
            !.status = "none"]

\* CPVRClient::ReCreate(): Destroy, then Create with the id the client had.
ClientReCreate(c, status) == ClientCreate(ClientDestroy(c), c.cid, status)

\* The state of a client object; generation 0 names an object that was
\* destroyed after a caller got its handle.
ClientState(o) == IF o[3] = 0 THEN ClientDestroy(NewClient) ELSE heap[o]

ReadyToUse(o) == ClientState(o).ready
IgnoreClient(o) == ClientState(o).ignore
GetID(o) == ClientState(o).cid

(***************************************************************************)
(* Registry queries (all take m_critSection for the map access).           *)
(***************************************************************************)
Registered == {m_clientMap[k] : k \in DOMAIN m_clientMap}

\* CPVRClients::GetClient: the object under iClientId, or NoObj.
GetClient(iClientId) ==
  IF iClientId <= PVR_INVALID_CLIENT_ID THEN NoObj
  ELSE IF iClientId \in DOMAIN m_clientMap THEN m_clientMap[iClientId]
  ELSE NoObj

\* CPVRClients::GetClientId: the key of the first entry (in key order) whose
\* client has this add-on id and instance id, or -1.
GetClientId(addonId, instanceId) ==
  LET hits == {k \in DOMAIN m_clientMap :
                 /\ ObjAddon(m_clientMap[k]) = addonId
                 /\ ObjInstance(m_clientMap[k]) = instanceId}
  IN IF hits = {} THEN NoClientId ELSE Min(hits)

\* valid client IDs start at 1
IsKnownClient(addonId, instanceId) == GetClientId(addonId, instanceId) > 0

\* A client counted as created as soon as it is in the map.
IsCreatedClient_AnyRegistered(addonId, instanceId) ==
  \E k \in DOMAIN m_clientMap :
    ObjAddon(m_clientMap[k]) = addonId /\ ObjInstance(m_clientMap[k]) = instanceId

\* CPVRClients::IsCreatedClient(addonId, instanceId)
IsCreatedClient(addonId, instanceId) ==
  LET hits == {k \in DOMAIN m_clientMap :
                 /\ ObjAddon(m_clientMap[k]) = addonId
                 /\ ObjInstance(m_clientMap[k]) = instanceId}
  IN IF hits = {} THEN FALSE ELSE ReadyToUse(m_clientMap[Min(hits)])

\* m_clientMap.insert(std::make_pair(id, client)): no effect on a present key.
MapInsert(map, id, o) ==
  IF id \in DOMAIN map THEN map
  ELSE [k \in DOMAIN map \cup {id} |-> IF k = id THEN o ELSE map[k]]

\* m_clientMap.erase(it)
MapErase(map, id) == [k \in DOMAIN map \ {id} |-> map[k]]

EmptyMap == [k \in {} |-> NoObj]

(***************************************************************************)
(* Collaborators read by UpdateAddons.                                     *)
(***************************************************************************)
\* CAddonMgr::GetAddonInfos(addons, false, ADDON_PVRDLL): enabled and disabled.
GetAddonInfos == SelectSeq(AddonOrder, LAMBDA a : a \in installed)

\* The disabled add-ons returned as well.
GetEnabledAddonInfos_AlsoDisabled == SelectSeq(AddonOrder, LAMBDA a : a \in installed)

\* CAddonMgr::GetAddonInfos(addons, true, ADDON_PVRDLL): enabled only.
GetEnabledAddonInfos == SelectSeq(AddonOrder, LAMBDA a : a \in installed \ disabled)

IsAddonDisabled(addonID) == addonID \in disabled

\* AddonInfo::GetKnownInstanceIds
GetKnownInstanceIds(addonID) == SortedSeq(knownInstances[addonID])

\* client->Addon()->GetSettingBool(ADDON_SETTING_INSTANCE_ENABLED_VALUE, ..)
GetSettingBool(addonID, instanceID) == instanceSetting[<<addonID, instanceID>>]

\* One entry of a pass's log.
Call(op, addonID, instanceID, gen, res, locked) ==
  [op |-> op, addon |-> addonID, inst |-> instanceID, gen |-> gen, res |-> res,
   locked |-> locked]

(***************************************************************************)
(* UpdateAddons: the classification (lines 120-203).                       *)
(***************************************************************************)
\* Client objects something still points to.
RefsOf(map, creates, ds, dr) ==
  {map[k] : k \in DOMAIN map}
    \cup UNION {{e[1] : e \in Range(creates[t])} : t \in JobIds}
    \cup {e[2] : e \in Range(ds)} \cup Range(dr)

Referenced == RefsOf(m_clientMap, addonsToCreate, dset, dreq)

\* The heap once the objects nothing points to are gone.
Sweep(h, refs) == [o \in Objs |-> IF o \in refs THEN h[o] ELSE FreeClient]

\* The slot a new client object of (addon, instance) is put in, NoObj if none.
AllocObj(addonID, instanceID) ==
  LET free == {g \in 1..MaxGen : <<addonID, instanceID, g>> \notin Referenced}
  IN IF free = {} THEN NoObj ELSE <<addonID, instanceID, Min(free)>>

\* The known instances taken as enabled whatever the add-on's state.
InstanceIdsWithStatus_AllEnabled(addonID, changedAddonId, changedInstanceId) ==
  LET instanceIds == GetKnownInstanceIds(addonID)
  IN [k \in 1..Len(instanceIds) |-> <<addonID, instanceIds[k], TRUE>>]
     \o (IF /\ changedInstanceId # ADDON_SINGLETON_INSTANCE_ID
            /\ changedAddonId = addonID
            /\ changedInstanceId \notin Range(instanceIds)
         THEN << <<addonID, changedInstanceId, FALSE>> >>
         ELSE <<>>)

\* instanceIdsWithStatus of one add-on: <<addon, instance, enabled>>.
InstanceIdsWithStatus(addonID, changedAddonId, changedInstanceId) ==
  LET instanceIds == GetKnownInstanceIds(addonID)
      bEnabled == ~IsAddonDisabled(addonID)
  IN [k \in 1..Len(instanceIds) |-> <<addonID, instanceIds[k], bEnabled>>]
     \o (IF /\ changedInstanceId # ADDON_SINGLETON_INSTANCE_ID
            /\ changedAddonId = addonID
            /\ changedInstanceId \notin Range(instanceIds)
         THEN << <<addonID, changedInstanceId, FALSE>> >>   \* instance was removed
         ELSE <<>>)

\* Every (addon, instance) a pass looks at, in the order it does.
EvaluatedInstances(changedAddonId, changedInstanceId) ==
  LET addons == GetAddonInfos
  IN Flatten([k \in 1..Len(addons) |->
                InstanceIdsWithStatus(addons[k], changedAddonId, changedInstanceId)])

NoAction(addonID, instanceID) ==
  [kind |-> "none", addon |-> addonID, inst |-> instanceID, obj |-> NoObj,
   id |-> NoClientId, fresh |-> FALSE, calls |-> <<>>]

\* Lines 149-178: the instance is enabled in the inventory and has no client,
\* or a client that is not created.
ClassifyNotCreated(e) ==
  LET addonID == e[1]
      instanceId == e[2]
      known == IsKnownClient(addonID, instanceId)
      isInstance == instanceId # ADDON_SINGLETON_INSTANCE_ID
      iClientId == ClientIdFromAddonIdAndInstanceId(addonID, instanceId)
      client == IF known THEN GetClient(iClientId) ELSE AllocObj(addonID, instanceId)
      instanceEnabled == IF isInstance THEN GetSettingBool(addonID, instanceId)
                         ELSE e[3]
  IN [kind |-> IF instanceEnabled THEN "create" ELSE "destroy",
      addon |-> addonID, inst |-> instanceId, obj |-> client,
      id |-> iClientId, fresh |-> ~known,
      calls |-> IF isInstance
                THEN <<Call("GetSettingBool", addonID, instanceId, 0, "", TRUE)>>
                ELSE <<>>]

\* Lines 179-200: the instance has a created client.
ClassifyCreated(e) ==
  LET addonID == e[1]
      instanceId == e[2]
      client == GetClient(GetClientId(addonID, instanceId))
      reads == e[3] /\ instanceId # ADDON_SINGLETON_INSTANCE_ID
      instanceEnabled == IF reads
                         THEN (IF client # NoObj
                               THEN GetSettingBool(addonID, instanceId)
                               ELSE FALSE)
                         ELSE e[3]
  IN [kind |-> IF instanceEnabled THEN "recreate" ELSE "destroy",
      addon |-> addonID, inst |-> instanceId, obj |-> client,
      id |-> GetClientId(addonID, instanceId), fresh |-> FALSE,
      calls |-> IF reads /\ client # NoObj
                THEN <<Call("ReloadSettings", addonID, instanceId, 0, "", TRUE),
                       Call("GetSettingBool", addonID, instanceId, 0, "", TRUE)>>
                ELSE <<>>]

\* A classification that leaves the created clients alone.
ClassifyInstance_KeepCreated(e) ==
  IF e[3] /\ (~IsKnownClient(e[1], e[2]) \/ ~IsCreatedClient(e[1], e[2]))
  THEN ClassifyNotCreated(e)
  ELSE NoAction(e[1], e[2])

\* The body of the loop over instanceIdsWithStatus (lines 144-201).
ClassifyInstance(e) ==
  IF e[3] /\ (~IsKnownClient(e[1], e[2]) \/ ~IsCreatedClient(e[1], e[2]))
  THEN ClassifyNotCreated(e)
  ELSE IF IsCreatedClient(e[1], e[2])
  THEN ClassifyCreated(e)
  ELSE NoAction(e[1], e[2])

\* The classification of a whole pass.
Classify(changedAddonId, changedInstanceId) ==
  LET ev == EvaluatedInstances(changedAddonId, changedInstanceId)
  IN [k \in 1..Len(ev) |-> ClassifyInstance(ev[k])]

\* The classification reaches line 152 for an instance whose derivation
\* does not return.
ClassifyAborts(changedAddonId, changedInstanceId) ==
  \E e \in Range(EvaluatedInstances(changedAddonId, changedInstanceId)) :
    /\ e[3] /\ (~IsKnownClient(e[1], e[2]) \/ ~IsCreatedClient(e[1], e[2]))
    /\ Aborts(e[1], e[2])

OfKind(results, kind) == SelectSeq(results, LAMBDA r : r.kind = kind)

\* The pass returns before classifying (lines 97-112).
ReturnsEarly(changedAddonId) ==
  \/ GetAddonInfos = <<>>
  \/ ~(changedAddonId = "" \/ changedAddonId \in Range(GetAddonInfos))

(***************************************************************************)
(* UpdateAddons: the order in which the lists are applied (lines 205-266). *)
(***************************************************************************)
\* The lists merged into the map before they are applied.
PhaseOrder_MergeFirst == <<"merge", "create", "recreate", "destroy">>

\* The destroy list applied before the other two.
PhaseOrder_DestroyFirst == <<"destroy", "create", "recreate", "merge">>

PhaseOrder == <<"create", "recreate", "destroy", "merge">>

PhaseLen(t, phase) ==
  CASE phase = "create" -> Len(addonsToCreate[t])
    [] phase = "recreate" -> Len(addonsToReCreate[t])
    [] phase = "destroy" -> Len(addonsToDestroy[t])
    [] phase = "merge" -> IF addonsToCreate[t] # <<>> THEN 1 ELSE 0

\* The position that follows `done` completed steps of the k-th phase:
\* <<phase, index>>, the PVR manager's Start after the last phase.
RECURSIVE Advance(_, _, _)
Advance(t, k, done) ==
  IF k > Len(PhaseOrder) THEN <<"start", 1>>
  ELSE IF done < PhaseLen(t, PhaseOrder[k]) THEN <<PhaseOrder[k], done + 1>>
  ELSE Advance(t, k + 1, 0)

PhaseIndex(phase) == CHOOSE k \in 1..Len(PhaseOrder) : PhaseOrder[k] = phase

\* pc and idx after the step at idx[t] of the current phase.
StepDone(t) ==
  LET nxt == Advance(t, PhaseIndex(pc[t]), idx[t])
  IN /\ pc' = [pc EXCEPT ![t] = nxt[1]]
     /\ idx' = [idx EXCEPT ![t] = nxt[2]]

AllIdle == dpc = "idle" /\ \A t \in JobIds : pc[t] = "idle"

(***************************************************************************)
(* Initial state: the registry is empty after construction; both add-ons   *)
(* are installed and enabled.                                              *)
(***************************************************************************)
InitEnv ==
  /\ installed = AddonIds
  /\ disabled = {}
  /\ knownInstances = [a \in AddonIds |-> DefaultInstances(a)]
  /\ instanceSetting = [p \in Pairs |-> TRUE]

InitRegistry ==
  /\ m_clientMap = EmptyMap
  /\ heap = [o \in Objs |-> FreeClient]
  /\ inserted = {}
  /\ evicted = FALSE

InitCaller ==
  /\ dpc = "idle"
  /\ dfn = ""
  /\ dreq = <<>>
  /\ dset = <<>>
  /\ didx = 1
  /\ failedClients = <<>>
  /\ lastError = "NO_ERROR"
  /\ dcalls = <<>>

\* What a pass remembers of the state it classified: the map, the keys whose
\* client was ready to use, and the add-ons that were enabled.
Snapshot ==
  [map |-> m_clientMap,
   ready |-> {k \in DOMAIN m_clientMap : ReadyToUse(m_clientMap[k])},
   enabled |-> installed \ disabled]

NoSnapshot == [map |-> EmptyMap, ready |-> {}, enabled |-> {}]

InitJobs ==
  /\ unchanged = FALSE
  /\ permanentlyFailed = {}
  /\ pc = [t \in JobIds |-> "idle"]
  /\ atBegin = [t \in JobIds |-> NoSnapshot]
  /\ args = [t \in JobIds |-> <<"", 0>>]
  /\ addonsToCreate = [t \in JobIds |-> <<>>]
  /\ addonsToReCreate = [t \in JobIds |-> <<>>]
  /\ addonsToDestroy = [t \in JobIds |-> <<>>]
  /\ idx = [t \in JobIds |-> 1]
  /\ log = [t \in JobIds |-> <<>>]

(***************************************************************************)
(* UpdateAddons, step by step.                                             *)
(***************************************************************************)
\* Lines 94-203: fetch the inventory, return early or classify under the lock.
UA_Begin(t, changedAddonId, changedInstanceId) ==
  /\ pc[t] = "idle"
  /\ args' = [args EXCEPT ![t] = <<changedAddonId, changedInstanceId>>]
  /\ atBegin' = [atBegin EXCEPT ![t] = Snapshot]
  /\ idx' = [idx EXCEPT ![t] = 1]
  /\ UNCHANGED <<envVars, hasher, overflow, notifierVars, unchanged, permanentlyFailed, callerVars, m_clientMap, inserted, evicted>>
  /\ IF ReturnsEarly(changedAddonId)
     THEN /\ pc' = [pc EXCEPT ![t] = "done"]
          /\ log' = [log EXCEPT ![t] = <<>>]
          /\ UNCHANGED <<heap, addonsToCreate, addonsToReCreate, addonsToDestroy>>
     ELSE IF ClassifyAborts(changedAddonId, changedInstanceId)
     THEN /\ pc' = [pc EXCEPT ![t] = "aborted"]
          /\ UNCHANGED <<heap, addonsToCreate, addonsToReCreate, addonsToDestroy, log>>
     ELSE \E results \in {Classify(changedAddonId, changedInstanceId)} :
          \E creates \in {OfKind(results, "create")},
             recreates \in {OfKind(results, "recreate")},
             destroys \in {OfKind(results, "destroy")} :
          LET made == {r.obj : r \in {x \in Range(creates) : x.fresh}}
          IN /\ NoObj \notin made
             /\ heap' = [o \in Objs |-> IF o \in made THEN NewClient ELSE heap[o]]
             /\ addonsToCreate' = [addonsToCreate EXCEPT ![t] =
                    [k \in 1..Len(creates) |-> <<creates[k].obj, creates[k].id>>]]
             /\ addonsToReCreate' = [addonsToReCreate EXCEPT ![t] =
                    [k \in 1..Len(recreates) |-> <<recreates[k].addon, recreates[k].inst>>]]
             /\ addonsToDestroy' = [addonsToDestroy EXCEPT ![t] =
                    [k \in 1..Len(destroys) |-> <<destroys[k].addon, destroys[k].inst>>]]
             /\ log' = [log EXCEPT ![t] =
                    Flatten([k \in 1..Len(results) |-> results[k].calls])]
             /\ pc' = [pc EXCEPT ![t] =
                    IF creates = <<>> /\ recreates = <<>> /\ destroys = <<>>
                    THEN "done" ELSE "stop"]

\* PVRManager.Stop called only by a pass that has clients to create.
UA_StopManager_OnlyForCreates(t) ==
  /\ pc[t] = "stop"
  /\ log' = [log EXCEPT ![t] = IF addonsToCreate[t] # <<>>
                               THEN Append(@, Call("MgrStop", "", 0, 0, "", FALSE))
                               ELSE @]
  /\ LET nxt == Advance(t, 1, 0)
     IN /\ pc' = [pc EXCEPT ![t] = nxt[1]]
        /\ idx' = [idx EXCEPT ![t] = nxt[2]]
  /\ UNCHANGED <<envVars, hasher, overflow, notifierVars, unchanged, permanentlyFailed, callerVars, regVars, atBegin, args, addonsToCreate, addonsToReCreate,
                 addonsToDestroy>>

\* Line 207: CServiceBroker::GetPVRManager().Stop()
UA_StopManager(t) ==
  /\ pc[t] = "stop"
  /\ log' = [log EXCEPT ![t] = Append(@, Call("MgrStop", "", 0, 0, "", FALSE))]
  /\ LET nxt == Advance(t, 1, 0)
     IN /\ pc' = [pc EXCEPT ![t] = nxt[1]]
        /\ idx' = [idx EXCEPT ![t] = nxt[2]]
  /\ UNCHANGED <<envVars, hasher, overflow, notifierVars, unchanged, permanentlyFailed, callerVars, regVars, atBegin, args, addonsToCreate, addonsToReCreate,
                 addonsToDestroy>>

\* The loop over addonsToCreate left at the first permanent failure.
UA_Create_StopsAtPermanentFailure(t, status) ==
  /\ pc[t] = "create"
  /\ LET client == addonsToCreate[t][idx[t]][1]
         iClientId == addonsToCreate[t][idx[t]][2]
         permanent == status = "PERMANENT_FAILURE"
     IN /\ client # NoObj
        /\ heap' = [heap EXCEPT ![client] = ClientCreate(@, iClientId, status)]
        /\ disabled' = IF permanent THEN disabled \cup {ObjAddon(client)} ELSE disabled
        /\ log' = [log EXCEPT ![t] =
               @ \o <<Call("Create", client[1], client[2], client[3], status, FALSE)>>
                 \o (IF permanent
                     THEN <<Call("DisableAddon", client[1], 0, 0, "", FALSE),
                            Call("EventLog", client[1], 0, 0, "", FALSE)>>
                     ELSE <<>>)]
        /\ IF permanent
           THEN LET nxt == Advance(t, PhaseIndex("create") + 1, 0)
                IN /\ pc' = [pc EXCEPT ![t] = nxt[1]]
                   /\ idx' = [idx EXCEPT ![t] = nxt[2]]
           ELSE StepDone(t)
  /\ UNCHANGED <<installed, knownInstances, instanceSetting, hasher, overflow, notifierVars, unchanged, permanentlyFailed, callerVars, m_clientMap,
                 inserted, evicted, atBegin, args, addonsToCreate, addonsToReCreate, addonsToDestroy>>

\* Lines 213-233: one round of the loop over addonsToCreate.
UA_Create(t, status) ==
  /\ pc[t] = "create"
  /\ LET client == addonsToCreate[t][idx[t]][1]
         iClientId == addonsToCreate[t][idx[t]][2]
         permanent == status = "PERMANENT_FAILURE"
     IN /\ client # NoObj
        /\ heap' = [heap EXCEPT ![client] = ClientCreate(@, iClientId, status)]
        /\ disabled' = IF permanent THEN disabled \cup {ObjAddon(client)} ELSE disabled
        /\ log' = [log EXCEPT ![t] =
               @ \o <<Call("Create", client[1], client[2], client[3], status, FALSE)>>
                 \o (IF permanent
                     THEN <<Call("DisableAddon", client[1], 0, 0, "", FALSE),
                            Call("EventLog", client[1], 0, 0, "", FALSE)>>
                     ELSE <<>>)]
  /\ StepDone(t)
  /\ UNCHANGED <<installed, knownInstances, instanceSetting, hasher, overflow, notifierVars, unchanged, permanentlyFailed, callerVars, m_clientMap,
                 inserted, evicted, atBegin, args, addonsToCreate, addonsToReCreate, addonsToDestroy>>

\* CPVRClients::StopClient (lines 280-310); status is what the client's
\* ReCreate ends with.
StopClient(addonId, instanceId, bRestart, status) ==
  LET iId == GetClientId(addonId, instanceId)
      mappedClient == GetClient(iId)
  IN IF mappedClient # NoObj
     THEN IF bRestart
          THEN [map |-> m_clientMap,
                heap |-> [heap EXCEPT ![mappedClient] = ClientReCreate(@, status)],
                erased |-> {}, ret |-> TRUE,
                calls |-> <<Call("ReCreate", addonId, instanceId, mappedClient[3],
                                 status, TRUE)>>]
          ELSE [map |-> MapErase(m_clientMap, iId),
                heap |-> [heap EXCEPT ![mappedClient] = ClientDestroy(@)],
                erased |-> {iId}, ret |-> TRUE,
                calls |-> <<Call("Destroy", addonId, instanceId, mappedClient[3],
                                 "", TRUE)>>]
     ELSE [map |-> m_clientMap, heap |-> heap, erased |-> {}, ret |-> FALSE,
           calls |-> <<>>]

ApplyStopClient(t, addonId, instanceId, bRestart, status) ==
  \E r \in {StopClient(addonId, instanceId, bRestart, status)} :
     /\ m_clientMap' = r.map
     /\ heap' = Sweep(r.heap, RefsOf(r.map, addonsToCreate, dset, dreq))
     /\ inserted' = inserted \ r.erased
     /\ evicted' = (evicted \/ r.erased # {})
     /\ log' = [log EXCEPT ![t] =
            @ \o r.calls
              \o <<Call("StopClient", addonId, instanceId, 0,
                        IF r.ret THEN "true" ELSE "false", FALSE)>>]

\* Lines 235-242: one round of the loop over addonsToReCreate.
UA_ReCreate(t, status) ==
  /\ pc[t] = "recreate"
  /\ LET e == addonsToReCreate[t][idx[t]]
     IN ApplyStopClient(t, e[1], e[2], TRUE, status)
  /\ StepDone(t)
  /\ UNCHANGED <<envVars, hasher, overflow, notifierVars, unchanged, permanentlyFailed, callerVars, atBegin, args, addonsToCreate, addonsToReCreate,
                 addonsToDestroy>>

\* Lines 246-250: one round of the loop over addonsToDestroy.
UA_Destroy(t) ==
  /\ pc[t] = "destroy"
  /\ LET e == addonsToDestroy[t][idx[t]]
     IN ApplyStopClient(t, e[1], e[2], FALSE, "OK")
  /\ StepDone(t)
  /\ UNCHANGED <<envVars, hasher, overflow, notifierVars, unchanged, permanentlyFailed, callerVars, atBegin, args, addonsToCreate, addonsToReCreate,
                 addonsToDestroy>>

\* A client whose id is in the map inserted under the next key that is free.
RECURSIVE NextFreeKey(_, _)
NextFreeKey(map, id) == IF id \in DOMAIN map THEN NextFreeKey(map, id + 1) ELSE id

RECURSIVE MergeCreated_UnderNextFreeKey(_, _)
MergeCreated_UnderNextFreeKey(map, list) ==
  IF list = <<>> THEN map
  ELSE LET client == Head(list)[1]
           iClientId == Head(list)[2]
       IN MergeCreated_UnderNextFreeKey(
            IF client \in {map[k] : k \in DOMAIN map} THEN map
            ELSE MapInsert(map, NextFreeKey(map, iClientId), client),
            Tail(list))

\* Lines 256-262: insert every entry of the list whose id is not in the map.
RECURSIVE MergeCreated(_, _)
MergeCreated(map, list) ==
  IF list = <<>> THEN map
  ELSE LET client == Head(list)[1]
           iClientId == Head(list)[2]
       IN MergeCreated(IF iClientId \notin DOMAIN map
                       THEN MapInsert(map, iClientId, client)
                       ELSE map,
                       Tail(list))

\* Lines 252-263: update the created clients map, under the lock.
UA_Merge(t) ==
  /\ pc[t] = "merge"
  /\ m_clientMap' = MergeCreated(m_clientMap, addonsToCreate[t])
  /\ inserted' = inserted \cup {e[2] : e \in Range(addonsToCreate[t])}
  /\ UNCHANGED evicted
  /\ log' = [log EXCEPT ![t] = Append(@, Call("Merge", "", 0, 0, "", TRUE))]
  /\ StepDone(t)
  /\ UNCHANGED <<envVars, hasher, overflow, notifierVars, unchanged, permanentlyFailed, callerVars, heap, atBegin, args, addonsToCreate, addonsToReCreate,
                 addonsToDestroy>>

\* Line 265: CServiceBroker::GetPVRManager().Start()
UA_StartManager(t) ==
  /\ pc[t] = "start"
  /\ log' = [log EXCEPT ![t] = Append(@, Call("MgrStart", "", 0, 0, "", FALSE))]
  /\ pc' = [pc EXCEPT ![t] = "done"]
  /\ UNCHANGED <<envVars, hasher, overflow, notifierVars, unchanged, permanentlyFailed, callerVars, regVars, atBegin, args, addonsToCreate, addonsToReCreate,
                 addonsToDestroy, idx>>

\* Line 267: the pass returns; its lists go out of scope, and with them the
\* client objects nothing else points to.
UA_Return(t) ==
  /\ pc[t] = "done"
  /\ pc' = [pc EXCEPT ![t] = "idle"]
  /\ atBegin' = [atBegin EXCEPT ![t] = NoSnapshot]
  /\ args' = [args EXCEPT ![t] = <<"", 0>>]
  /\ addonsToCreate' = [addonsToCreate EXCEPT ![t] = <<>>]
  /\ addonsToReCreate' = [addonsToReCreate EXCEPT ![t] = <<>>]
  /\ addonsToDestroy' = [addonsToDestroy EXCEPT ![t] = <<>>]
  /\ idx' = [idx EXCEPT ![t] = 1]
  /\ log' = [log EXCEPT ![t] = <<>>]
  /\ heap' = Sweep(heap, RefsOf(m_clientMap, addonsToCreate', dset, dreq))
  /\ unchanged' = TRUE
  /\ permanentlyFailed' =
       {p \in permanentlyFailed \cup
                {<<log[t][k].addon, log[t][k].inst, log[t][k].gen>> :
                   k \in {j \in 1..Len(log[t]) :
                            log[t][j].op = "Create" /\ log[t][j].res = "PERMANENT_FAILURE"}} :
          p[1] \in disabled}
  /\ UNCHANGED <<envVars, hasher, overflow, notifierVars, callerVars, m_clientMap, inserted, evicted>>

(***************************************************************************)
(* The add-on manager and the clients' connection state change while no    *)
(* pass runs.                                                              *)
(***************************************************************************)
\* The permanently failed instances whose add-on is still disabled after the
\* step.
StillDisabled == {p \in permanentlyFailed : p[1] \in disabled'}

InstallAddon(a) ==
  /\ AllIdle /\ a \notin installed
  /\ installed' = installed \cup {a}
  /\ unchanged' = FALSE
  /\ UNCHANGED <<disabled, knownInstances, instanceSetting, hasher, overflow, notifierVars, callerVars, regVars, jobVars>>
  /\ permanentlyFailed' = StillDisabled

UnInstallAddon(a) ==
  /\ AllIdle /\ a \in installed
  /\ installed' = installed \ {a}
  /\ disabled' = disabled \ {a}
  /\ knownInstances' = [knownInstances EXCEPT ![a] = DefaultInstances(a)]
  /\ instanceSetting' = [p \in Pairs |-> IF p[1] = a THEN TRUE ELSE instanceSetting[p]]
  /\ unchanged' = FALSE
  /\ UNCHANGED <<hasher, overflow, notifierVars, callerVars, regVars, jobVars>>
  /\ permanentlyFailed' = StillDisabled

EnableAddon(a) ==
  /\ AllIdle /\ a \in installed /\ a \in disabled
  /\ disabled' = disabled \ {a}
  /\ unchanged' = FALSE
  /\ UNCHANGED <<installed, knownInstances, instanceSetting, hasher, overflow, notifierVars, callerVars, regVars, jobVars>>
  /\ permanentlyFailed' = StillDisabled

DisableAddon(a) ==
  /\ AllIdle /\ a \in installed /\ a \notin disabled
  /\ disabled' = disabled \cup {a}
  /\ unchanged' = FALSE
  /\ UNCHANGED <<installed, knownInstances, instanceSetting, hasher, overflow, notifierVars, callerVars, regVars, jobVars>>
  /\ permanentlyFailed' = StillDisabled

InstanceAdded(a, i) ==
  /\ AllIdle /\ a \in installed /\ SupportsInstances(a)
  /\ i \in InstanceIdsOf(a) \ knownInstances[a]
  /\ knownInstances' = [knownInstances EXCEPT ![a] = @ \cup {i}]
  /\ unchanged' = FALSE
  /\ UNCHANGED <<installed, disabled, instanceSetting, hasher, overflow, notifierVars, callerVars, regVars, jobVars>>
  /\ permanentlyFailed' = StillDisabled

InstanceRemoved(a, i) ==
  /\ AllIdle /\ a \in installed /\ SupportsInstances(a)
  /\ i \in knownInstances[a]
  /\ knownInstances' = [knownInstances EXCEPT ![a] = @ \ {i}]
  /\ instanceSetting' = [instanceSetting EXCEPT ![<<a, i>>] = TRUE]
  /\ unchanged' = FALSE
  /\ UNCHANGED <<installed, disabled, hasher, overflow, notifierVars, callerVars, regVars, jobVars>>
  /\ permanentlyFailed' = StillDisabled

SetInstanceEnabled(a, i, v) ==
  /\ AllIdle /\ a \in installed /\ SupportsInstances(a)
  /\ i \in knownInstances[a]
  /\ instanceSetting[<<a, i>>] # v
  /\ instanceSetting' = [instanceSetting EXCEPT ![<<a, i>>] = v]
  /\ unchanged' = FALSE
  /\ UNCHANGED <<installed, disabled, knownInstances, hasher, overflow, notifierVars, callerVars, regVars, jobVars>>
  /\ permanentlyFailed' = StillDisabled

\* CPVRClient::SetConnectionState decides whether the client is to be ignored.
SetIgnoreClient(o, v) ==
  /\ AllIdle /\ o \in Registered /\ heap[o].ready /\ heap[o].ignore # v
  /\ heap' = [heap EXCEPT ![o].ignore = v]
  /\ UNCHANGED <<envVars, hasher, overflow, notifierVars, unchanged, permanentlyFailed, callerVars, m_clientMap, inserted, evicted, jobVars>>

EnvNext ==
  \/ \E a \in AddonIds : InstallAddon(a) \/ UnInstallAddon(a)
  \/ \E a \in AddonIds : EnableAddon(a) \/ DisableAddon(a)
  \/ \E a \in AddonIds, i \in InstanceIds : InstanceAdded(a, i) \/ InstanceRemoved(a, i)
  \/ \E a \in AddonIds, i \in InstanceIds, v \in BOOLEAN : SetInstanceEnabled(a, i, v)

(***************************************************************************)
(* Callers of the registry: they take client handles, fan an operation out *)
(* over the clients, or stop and continue all clients.                     *)
(***************************************************************************)
MaxReq == 2    \* length of the list of clients a caller hands to ForClients

PVR_ERROR == {"NO_ERROR", "NOT_IMPLEMENTED", "SERVER_ERROR", "FAILED"}

\* The handles a caller can hold: those of the registered clients (GetClient,
\* GetCreatedClients), and the handle of a client that has been erased from
\* the registry and destroyed since the caller got it (once StopClient has
\* destroyed a client).
StaleHandle == <<AddonOrder[1], ADDON_SINGLETON_INSTANCE_ID, 0>>
Handles == Registered \cup (IF evicted THEN {StaleHandle} ELSE {})

\* One entry of the caller's log.
DCall(op, o, id, status, locked) ==
  [op |-> op, obj |-> o, id |-> id, status |-> status, locked |-> locked]

\* CPVRClients::GetCallableClients (lines 473-502): <<clientsReady, clientsNotReady>>,
\* clientsReady as the sequence of its <<id, client>> entries in key order.
GetCallableClients ==
  LET addons == GetEnabledAddonInfos
      ids == Flatten([k \in 1..Len(addons) |->
                [j \in 1..Len(GetKnownInstanceIds(addons[k])) |->
                   ClientIdFromAddonIdAndInstanceId(addons[k],
                                                    GetKnownInstanceIds(addons[k])[j])]])
      callable(id) == LET client == GetClient(id)
                      IN client # NoObj /\ ReadyToUse(client) /\ ~IgnoreClient(client)
      readyIds == SortedSeq({id \in Range(ids) : callable(id)})
  IN <<[k \in 1..Len(readyIds) |-> <<readyIds[k], GetClient(readyIds[k])>>],
       SelectSeq(ids, LAMBDA id : ~callable(id))>>

\* Line 486 is reached for an instance whose derivation does not return.
GetCallableClientsAborts ==
  \E a \in Range(GetEnabledAddonInfos) : \E i \in knownInstances[a] : Aborts(a, i)

\* Only the registry entries that are not callable, in key order.
NotRequestedOrNotCallable_OnlyNotCallable(clients) ==
  SelectSeq(SortedSeq(DOMAIN m_clientMap),
            LAMBDA key : ~(ReadyToUse(m_clientMap[key]) /\ ~IgnoreClient(m_clientMap[key])))

\* ForClients, lines 954-968: the registry entries that are not both callable
\* and requested, in key order.
NotRequestedOrNotCallable(clients) ==
  SelectSeq(SortedSeq(DOMAIN m_clientMap),
            LAMBDA key :
              ~(/\ ReadyToUse(m_clientMap[key])
                /\ ~IgnoreClient(m_clientMap[key])
                /\ \E k \in 1..Len(clients) : GetID(clients[k]) = key))

\* ForClients that handles an empty list of clients itself.
RunsOverCreated_OnlyForCreatedClients(fn, clients) == fn = "ForCreatedClients"

\* Line 947: ForClients hands an empty list of clients to ForCreatedClients.
RunsOverCreated(fn, clients) == fn = "ForCreatedClients" \/ clients = <<>>

\* ForCreatedClients (lines 908-927), and ForClients up to its loop over the
\* requested clients (lines 947-968).
D_BeginBody(fn, clients) ==
  /\ dpc = "idle"
  /\ dfn' = fn
  /\ dreq' = clients
  /\ didx' = 1
  /\ lastError' = "NO_ERROR"
  /\ dcalls' = <<>>
  /\ IF RunsOverCreated(fn, clients) /\ GetCallableClientsAborts
     THEN /\ dpc' = "aborted"
          /\ UNCHANGED <<dset, failedClients>>
     ELSE IF RunsOverCreated(fn, clients)
     THEN \E callable \in {GetCallableClients} :
          /\ dset' = callable[1]
          /\ failedClients' = callable[2]
          /\ dpc' = IF callable[1] = <<>> THEN "done" ELSE "created"
     ELSE /\ dset' = <<>>
          /\ failedClients' = NotRequestedOrNotCallable(clients)
          /\ dpc' = IF clients = <<>> THEN "done" ELSE "requested"
  /\ UNCHANGED <<envVars, hasher, overflow, notifierVars, unchanged, permanentlyFailed, regVars, jobVars>>

\* A fan-out called while no pass runs.
D_Begin(fn, clients) == AllIdle /\ D_BeginBody(fn, clients)

\* Every status but "no error" counted as a failure.
IsFailure_NotImplementedFails(currentError) == currentError # "NO_ERROR"

\* What one client's result does to lastError and failedClients (lines 933-937,
\* 977-981).
IsFailure(currentError) ==
  currentError # "NO_ERROR" /\ currentError # "NOT_IMPLEMENTED"

\* The first error kept as the result instead of the last.
Aggregate_FirstError(currentError, id) ==
  /\ lastError' = IF IsFailure(currentError) /\ lastError = "NO_ERROR"
                  THEN currentError ELSE lastError
  /\ failedClients' = IF IsFailure(currentError) THEN Append(failedClients, id)
                      ELSE failedClients

Aggregate(currentError, id) ==
  /\ lastError' = IF IsFailure(currentError) THEN currentError ELSE lastError
  /\ failedClients' = IF IsFailure(currentError) THEN Append(failedClients, id)
                      ELSE failedClients

\* The loop over clientsReady run inside the critical section that built it.
D_CallCreated_Locked(currentError) ==
  /\ dpc = "created"
  /\ LET entry == dset[didx]
     IN /\ dcalls' = Append(dcalls, DCall("call", entry[2], entry[1], currentError, TRUE))
        /\ Aggregate(currentError, entry[1])
  /\ didx' = didx + 1
  /\ dpc' = IF didx = Len(dset) THEN "done" ELSE "created"
  /\ UNCHANGED <<envVars, hasher, overflow, notifierVars, unchanged, permanentlyFailed, regVars, jobVars, dfn, dreq, dset>>

\* ForCreatedClients, lines 929-938: one round of the loop over clientsReady.
D_CallCreated(currentError) ==
  /\ dpc = "created"
  /\ LET entry == dset[didx]
     IN /\ dcalls' = Append(dcalls, DCall("call", entry[2], entry[1], currentError, FALSE))
        /\ Aggregate(currentError, entry[1])
  /\ didx' = didx + 1
  /\ dpc' = IF didx = Len(dset) THEN "done" ELSE "created"
  /\ UNCHANGED <<envVars, hasher, overflow, notifierVars, unchanged, permanentlyFailed, regVars, jobVars, dfn, dreq, dset>>

\* ForClients, lines 970-987: one round of the loop over the requested clients.
D_CallRequested(currentError) ==
  /\ dpc = "requested"
  /\ LET client == dreq[didx]
     IN IF GetID(client) \notin Range(failedClients)
        THEN /\ dcalls' = Append(dcalls,
                                 DCall("call", client, GetID(client), currentError, FALSE))
             /\ Aggregate(currentError, GetID(client))
        ELSE /\ currentError = "NO_ERROR"
             /\ dcalls' = Append(dcalls, DCall("skip", client, GetID(client), "", FALSE))
             /\ UNCHANGED <<lastError, failedClients>>
  /\ didx' = didx + 1
  /\ dpc' = IF didx = Len(dreq) THEN "done" ELSE "requested"
  /\ UNCHANGED <<envVars, hasher, overflow, notifierVars, unchanged, permanentlyFailed, regVars, jobVars, dfn, dreq, dset>>

\* CPVRClients::Stop and CPVRClients::Continue (lines 73-89): every client of
\* the map is called with the lock held.
D_StopOrContinue(fn) ==
  /\ AllIdle
  /\ dfn' = fn
  /\ \E keys \in {SortedSeq(DOMAIN m_clientMap)} :
       dcalls' = [k \in 1..Len(keys) |-> DCall(fn, m_clientMap[keys[k]], keys[k], "", TRUE)]
  /\ dpc' = "done"
  /\ UNCHANGED <<envVars, hasher, overflow, notifierVars, unchanged, permanentlyFailed, regVars, jobVars, dreq, dset, didx,
                 failedClients, lastError>>

\* The operation returns to its caller.
D_Return ==
  /\ dpc = "done"
  /\ dpc' = "idle"
  /\ dfn' = ""
  /\ dreq' = <<>>
  /\ dset' = <<>>
  /\ didx' = 1
  /\ failedClients' = <<>>
  /\ lastError' = "NO_ERROR"
  /\ dcalls' = <<>>
  /\ heap' = Sweep(heap, RefsOf(m_clientMap, addonsToCreate, <<>>, <<>>))
  /\ UNCHANGED <<envVars, hasher, overflow, notifierVars, unchanged, permanentlyFailed, m_clientMap, inserted, evicted, jobVars>>

\* The lists of clients a caller can hand to ForClients.
RECURSIVE SeqsUpTo(_, _)
SeqsUpTo(S, n) ==
  IF n = 0 THEN {<<>>}
  ELSE LET shorter == SeqsUpTo(S, n - 1)
       IN shorter \cup {Append(q, x) : q \in shorter, x \in S}

CallerNext ==
  \/ D_Begin("ForCreatedClients", <<>>)
  \/ \E clients \in SeqsUpTo(Handles, MaxReq) : D_Begin("ForClients", clients)
  \/ \E currentError \in PVR_ERROR : D_CallCreated(currentError)
  \/ \E currentError \in PVR_ERROR : D_CallRequested(currentError)
  \/ \E fn \in {"Stop", "Continue"} : D_StopOrContinue(fn)
  \/ D_Return

(***************************************************************************)
(* The connection state notifier (ConnectionStateChange, lines 818-881).   *)
(***************************************************************************)
PVR_CONNECTION_STATE ==
  {"UNKNOWN", "SERVER_UNREACHABLE", "SERVER_MISMATCH", "VERSION_MISMATCH",
   "ACCESS_DENIED", "CONNECTED", "DISCONNECTED", "CONNECTING"}

\* A value of newState that is none of the enumerators.
OutOfRangeState == "OUT_OF_RANGE"

\* The states the switch has a case for (lines 832-865); UNKNOWN and the
\* values outside the enumeration take the default.
StatesWithCase == PVR_CONNECTION_STATE \ {"UNKNOWN"}

\* The clients that report connection states; NoClient is the null pointer.
NotifierClients == AddonIds
NoClient == ""

\* CPVRClient::SetConnectionState: the state before the new one is kept.
SetConnectionState(c, newState) == [prev |-> c.state, state |-> newState]

\* CPVRClient::ResetProperties (Create, Destroy): both states are unknown.
ResetConnectionState == [prev |-> "UNKNOWN", state |-> "UNKNOWN"]

\* A notification suppressed only when the state before was UNKNOWN.
IsFirstReport_UnknownOnly(previous) == previous = "UNKNOWN"

\* Lines 834-835 and 854-855: the state is the first one the client reports
\* after it started to connect.
IsFirstReport(previous) == previous = "UNKNOWN" \/ previous = "CONNECTING"

\* Lines 826-865: <<iMsg, bError, bNotify>> for the states with a case.
MessageFor(newState, previous) ==
  CASE newState = "SERVER_UNREACHABLE" -> <<35505, TRUE, ~IsFirstReport(previous)>>
    [] newState = "SERVER_MISMATCH" -> <<35506, TRUE, TRUE>>
    [] newState = "VERSION_MISMATCH" -> <<35507, TRUE, TRUE>>
    [] newState = "ACCESS_DENIED" -> <<35508, TRUE, TRUE>>
    [] newState = "CONNECTED" -> <<36034, FALSE, ~IsFirstReport(previous)>>
    [] newState = "DISCONNECTED" -> <<36030, TRUE, TRUE>>
    [] newState = "CONNECTING" -> <<35509, FALSE, FALSE>>

\* g_localizeStrings.Get(iMsg)
Localized(iMsg) == "#" \o ToString(iMsg)

\* CPVRClients::ConnectionStateChange: the CPVREventLogJobs it adds.
ConnectionStateChange(client, previous, newState, strMessage) ==
  IF client = NoClient THEN <<>>
  ELSE IF newState \notin StatesWithCase THEN <<>>   \* default: logged, no job
  ELSE LET m == MessageFor(newState, previous)
       IN <<[client |-> client, bNotify |-> m[3], bError |-> m[2],
             strMsg |-> IF strMessage # "" THEN strMessage ELSE Localized(m[1])]>>

InitNotifier ==
  /\ connState = [c \in NotifierClients |-> ResetConnectionState]
  /\ lastChange = [client |-> NoClient, previous |-> "UNKNOWN", newState |-> "UNKNOWN"]
  /\ eventLogJobs = <<>>

\* A client goes to a new connection state and reports it.
N_StateChange(client, newState, strMessage) ==
  /\ connState' = [connState EXCEPT ![client] = SetConnectionState(@, newState)]
  /\ LET previous == connState'[client].prev
     IN /\ lastChange' = [client |-> client, previous |-> previous, newState |-> newState]
        /\ eventLogJobs' = ConnectionStateChange(client, previous, newState, strMessage)
  /\ UNCHANGED <<envVars, hasher, overflow, unchanged, permanentlyFailed, regVars, jobVars, callerVars>>

\* ConnectionStateChange called without a client (line 823).
N_NoClient(newState) ==
  /\ lastChange' = [client |-> NoClient, previous |-> "UNKNOWN", newState |-> newState]
  /\ eventLogJobs' = ConnectionStateChange(NoClient, "UNKNOWN", newState, "")
  /\ UNCHANGED <<connState, envVars, hasher, overflow, unchanged, permanentlyFailed, regVars, jobVars, callerVars>>

\* A client is created anew or destroyed: its connection states are reset.
N_Reset(client) ==
  /\ connState[client] # ResetConnectionState
  /\ connState' = [connState EXCEPT ![client] = ResetConnectionState]
  /\ UNCHANGED <<lastChange, eventLogJobs, envVars, hasher, overflow, unchanged, permanentlyFailed, regVars, jobVars,
                 callerVars>>

NotifierNext ==
  \/ \E client \in NotifierClients, strMessage \in {"", "backend message"} :
       \E newState \in PVR_CONNECTION_STATE \cup {OutOfRangeState} :
         N_StateChange(client, newState, strMessage)
  \/ \E newState \in PVR_CONNECTION_STATE : N_NoClient(newState)
  \/ \E client \in NotifierClients : N_Reset(client)

(***************************************************************************)
(* Specification: one job thread runs the passes, one after the other; the *)
(* hasher is any of Hashers.                                               *)
(***************************************************************************)
Init ==
  /\ InitEnv /\ InitRegistry /\ InitJobs /\ InitCaller /\ InitNotifier
  /\ hasher \in Hashers
  /\ overflow \in IF \E str \in HashedStrings : StaticCastInt(hasher[str]) = INT_MIN
                  THEN OverflowOutcomes ELSE {"wraps"}

\* The instance ids an event or a restart request of an add-on carries.
ChangedInstanceIds(a) ==
  IF a = "" THEN {ADDON_SINGLETON_INSTANCE_ID} ELSE InstanceIdsOf(a)

JobNext(t) ==
  \/ \E a \in AddonIds \cup {""} : \E i \in ChangedInstanceIds(a) : UA_Begin(t, a, i)
  \/ UA_StopManager(t)
  \/ \E status \in ADDON_STATUS : UA_Create(t, status)
  \/ \E status \in {"OK", "LOST_CONNECTION"} : UA_ReCreate(t, status)
  \/ UA_Destroy(t)
  \/ UA_Merge(t)
  \/ UA_StartManager(t)
  \/ UA_Return(t)

Next == JobNext(1) \/ EnvNext

Spec == Init /\ [][Next]_vars

(***************************************************************************)
(* Specification: passes and callers, one at a time; the add-ons are       *)
(* enabled, disabled and lose instances, and clients come to be ignored.   *)
(***************************************************************************)
InitDispatch ==
  /\ installed = AddonIds
  /\ disabled = {}
  /\ knownInstances = [a \in AddonIds |-> InstanceIdsOf(a)]
  /\ instanceSetting = [p \in Pairs |-> TRUE]
  /\ hasher = RegularHasher
  /\ overflow = "wraps"
  /\ InitRegistry /\ InitJobs /\ InitCaller /\ InitNotifier

EnvNextDispatch ==
  \/ \E a \in AddonIds : EnableAddon(a) \/ DisableAddon(a)
  \/ \E a \in AddonIds, i \in InstanceIds : InstanceRemoved(a, i)
  \/ \E o \in Objs, v \in BOOLEAN : SetIgnoreClient(o, v)

\* A pass starts while no caller is inside an operation.
JobNextDispatch == dpc = "idle" /\ JobNext(1)

NextDispatch == JobNextDispatch \/ EnvNextDispatch \/ CallerNext

SpecDispatch == InitDispatch /\ [][NextDispatch]_vars

(***************************************************************************)
(* Specification: a job thread runs the passes while a caller's thread     *)
(* runs fan-outs over clients of the registry; each step is one critical   *)
(* section or one client call.  The add-ons are enabled and disabled while *)
(* both threads are idle.                                                  *)
(***************************************************************************)
InitConcurrent ==
  /\ InitEnv /\ InitRegistry /\ InitJobs /\ InitCaller /\ InitNotifier
  /\ hasher = RegularHasher
  /\ overflow = "wraps"

EnvNextConcurrent == \E a \in AddonIds : EnableAddon(a) \/ DisableAddon(a)

CallerNextConcurrent ==
  \/ D_BeginBody("ForCreatedClients", <<>>)
  \/ \E clients \in SeqsUpTo(Registered, MaxReq) : D_BeginBody("ForClients", clients)
  \/ \E currentError \in PVR_ERROR : D_CallCreated(currentError)
  \/ \E currentError \in PVR_ERROR : D_CallRequested(currentError)
  \/ D_Return

NextConcurrent == JobNext(1) \/ EnvNextConcurrent \/ CallerNextConcurrent

SpecConcurrent == InitConcurrent /\ [][NextConcurrent]_vars

(***************************************************************************)
(* Specification: one job thread runs the passes under any of the hashers  *)
(* while add-ons are enabled and disabled between the passes.  A pass that  *)
(* has begun is run to its end: the job manager's worker thread executes    *)
(* the job without waiting for anything but m_critSection, which every      *)
(* holder releases.                                                         *)
(***************************************************************************)
\* The steps of a pass after its classification (lines 205-267).
PassStep(t) ==
  \/ UA_StopManager(t)
  \/ \E status \in ADDON_STATUS : UA_Create(t, status)
  \/ \E status \in {"OK", "LOST_CONNECTION"} : UA_ReCreate(t, status)
  \/ UA_Destroy(t)
  \/ UA_Merge(t)
  \/ UA_StartManager(t)
  \/ UA_Return(t)

EnvNextLive ==
  \/ \E a \in AddonIds : EnableAddon(a) \/ DisableAddon(a)
  \/ \E a \in AddonIds, i \in InstanceIds : InstanceAdded(a, i)

NextLive == JobNext(1) \/ EnvNextLive

SpecLive == Init /\ [][NextLive]_vars /\ WF_vars(PassStep(1))

(***************************************************************************)
(* Specification: two passes run as jobs on two worker threads of the job  *)
(* manager (each add-on event and each restart request submits its own     *)
(* job); their steps interleave.  The add-ons are enabled and disabled      *)
(* while no pass runs.                                                      *)
(***************************************************************************)
\* The job that an event of the add-on, or a restart request for it, submits.
PassOf(t, changedAddonId, changedInstanceId) ==
  UA_Begin(t, changedAddonId, changedInstanceId) \/ PassStep(t)

NextTwoPasses ==
  \/ PassOf(1, "pvr.a", ADDON_SINGLETON_INSTANCE_ID)
  \/ PassOf(2, "pvr.b", ADDON_FIRST_INSTANCE_ID)
  \/ EnvNextConcurrent

SpecTwoPasses == InitConcurrent /\ [][NextTwoPasses]_vars

(***************************************************************************)
(* Specification: the clients report connection states; no pass and no     *)
(* caller runs.                                                            *)
(***************************************************************************)
SpecNotifier == InitDispatch /\ [][NotifierNext]_vars

(***************************************************************************)
(* Properties.  The passes are those of job 1.                             *)
(***************************************************************************)
Logged(op) == \E k \in 1..Len(log[1]) : log[1][k].op = op

ListsEmpty ==
  addonsToCreate[1] = <<>> /\ addonsToReCreate[1] = <<>> /\ addonsToDestroy[1] = <<>>

\* The pass has classified and has applied nothing yet: the inventory and the
\* registry are as the classification saw them.
Classified == pc[1] = "stop" \/ (pc[1] = "done" /\ ~Logged("MgrStart"))

\* The instances the running pass evaluates.
Evaluated == Range(EvaluatedInstances(args[1][1], args[1][2]))

\* Nothing for a pass to do: it returns early, or every instance it evaluates
\* is disabled in the inventory and has no created client.
NothingToDo ==
  \/ ReturnsEarly(args[1][1])
  \/ \A e \in Evaluated : ~e[3] /\ ~IsCreatedClient(e[1], e[2])

InstanceSettingOn(addonID, instanceId) ==
  instanceId = ADDON_SINGLETON_INSTANCE_ID \/ GetSettingBool(addonID, instanceId)

\* C1 (as amended): with the inventory and the settings unchanged since the
\* previous pass, a further pass has three empty lists exactly when it returns
\* early or every instance it evaluates is disabled and has no created client;
\* a created client, registered under a positive id, of an enabled instance
\* whose setting is on is in the recreate list; PVRManager.Stop and PVRManager.Start are called exactly by
\* the passes whose lists are not all empty.
C1_NoOpIffNothingEnabledOrCreated ==
  unchanged =>
    /\ Classified => (ListsEmpty <=> NothingToDo)
    /\ (Classified /\ ~ReturnsEarly(args[1][1])) =>
         \A e \in Evaluated :
           (/\ e[3] /\ InstanceSettingOn(e[1], e[2])
            /\ IsKnownClient(e[1], e[2]) /\ IsCreatedClient(e[1], e[2]))
             => <<e[1], e[2]>> \in Range(addonsToReCreate[1])
    /\ (Logged("MgrStop") \/ Logged("MgrStart")) => ~ListsEmpty
    /\ (pc[1] = "done" /\ ~ListsEmpty) => (Logged("MgrStop") /\ Logged("MgrStart"))

\* C1 witness: nothing changed since the previous pass, every enabled instance
\* has a ready client, and the pass is about to stop the PVR manager.
C1_Witness ==
  /\ unchanged /\ pc[1] = "stop"
  /\ addonsToCreate[1] = <<>> /\ addonsToDestroy[1] = <<>>
  /\ addonsToReCreate[1] # <<>>
  /\ \A e \in Evaluated : e[3] => IsCreatedClient(e[1], e[2])

\* C1 as stated: with the inventory and the settings unchanged since the
\* previous pass, a pass has three empty lists and calls neither
\* PVRManager.Stop nor PVRManager.Start.
C1_Original ==
  (unchanged /\ pc[1] # "idle") =>
    (ListsEmpty /\ ~Logged("MgrStop") /\ ~Logged("MgrStart"))

\* C2 (as amended): every client in the registry has had Create called on it
\* before it was inserted, is stored under the id it was created with, and is
\* ready to use exactly when its last Create or ReCreate returned OK; a client
\* whose Create failed is registered too, as not ready to use.
C2_RegisteredAfterCreateCall ==
  \A k \in DOMAIN m_clientMap :
    LET c == heap[m_clientMap[k]]
    IN /\ c.live
       /\ c.status \in ADDON_STATUS
       /\ c.cid = k
       /\ c.ready <=> (c.status = "OK")

\* C2 witness: a pass has returned and the registry holds a client whose
\* Create returned a failure.
C2_Witness ==
  /\ pc[1] = "idle"
  /\ \E k \in DOMAIN m_clientMap :
       /\ heap[m_clientMap[k]].status \in {"LOST_CONNECTION", "PERMANENT_FAILURE"}
       /\ ~ReadyToUse(m_clientMap[k])

\* C2 as stated: every client in the registry is one whose Create returned
\* success.
C2_Original ==
  \A k \in DOMAIN m_clientMap : heap[m_clientMap[k]].status = "OK"

\* The calls into client objects: made by a pass, made by a caller.
ClientOpsOfPass == {"Create", "ReCreate", "Destroy", "ReloadSettings"}
ClientOpsOfCaller == {"call", "Stop", "Continue"}

FanOutDone == dpc = "done" /\ dfn \in {"ForCreatedClients", "ForClients"}

\* The fan-out ran as ForCreatedClients (ForClients does for an empty list).
OverCreated == dfn = "ForCreatedClients" \/ dreq = <<>>

\* The positions of the caller's log at which the operation was invoked.
Invocations == {k \in 1..Len(dcalls) : dcalls[k].op = "call"}
InvocationsOn(o) == {k \in Invocations : dcalls[k].obj = o}

Callable(o) == ReadyToUse(o) /\ ~IgnoreClient(o)

\* C4 as stated: when a fan-out has returned, the operation has been invoked
\* exactly once on each client of the call set of ForCreatedClients, and
\* exactly once on each requested client of ForClients that is ready and not
\* ignored, also when the requested list names a client twice.
C4_Original ==
  FanOutDone =>
    IF OverCreated
    THEN \A k \in 1..Len(dset) : Cardinality(InvocationsOn(dset[k][2])) = 1
    ELSE \A k \in 1..Len(dreq) :
           Callable(dreq[k]) => Cardinality(InvocationsOn(dreq[k])) = 1

\* The ids a fan-out reports as failed without invoking the operation: for
\* ForCreatedClients the ids of the enabled add-ons' known instances that have
\* no callable client, for ForClients the registry keys whose client is not
\* callable or not requested.
ReportedNotInvoked ==
  IF OverCreated
  THEN {ClientIdFromAddonIdAndInstanceId(p[1], p[2]) :
          p \in {q \in Pairs : /\ q[1] \in installed \ disabled
                               /\ q[2] \in knownInstances[q[1]]
                               /\ LET c == GetClient(ClientIdFromAddonIdAndInstanceId(q[1], q[2]))
                                  IN c = NoObj \/ ~Callable(c)}}
  ELSE {k \in DOMAIN m_clientMap :
          ~(Callable(m_clientMap[k]) /\ \E j \in 1..Len(dreq) : GetID(dreq[j]) = k)}

\* Clients A and B were the ones invoked: A returned "not implemented", B an
\* error.
TargetedAB(a, b) ==
  /\ FanOutDone
  /\ Invocations = {a, b} /\ a # b
  /\ dcalls[a].obj # dcalls[b].obj
  /\ dcalls[a].status = "NOT_IMPLEMENTED"
  /\ dcalls[b].status \in {"SERVER_ERROR", "FAILED"}

\* C5 (as amended): when A and B are the clients a fan-out invokes, A returns
\* "not implemented" and B an error, the result is B's error and the failed
\* list holds B, not A, and besides B exactly the ids reported as failed
\* without invocation.
C5_AggregateIsBAndListIsBPlusNotInvoked ==
  \A a, b \in 1..Len(dcalls) :
    TargetedAB(a, b) =>
      /\ lastError = dcalls[b].status
      /\ dcalls[a].id \notin Range(failedClients)
      /\ Range(failedClients) = ReportedNotInvoked \cup {dcalls[b].id}
      /\ failedClients[Len(failedClients)] = dcalls[b].id

\* C5 witness: ForClients has invoked A and B with these results while the
\* registry holds a third client.
C5_Witness ==
  /\ dfn = "ForClients" /\ dreq # <<>>
  /\ \E a, b \in 1..Len(dcalls) : TargetedAB(a, b)
  /\ Cardinality(DOMAIN m_clientMap) > 2

\* C5 as stated: the result is B's error and the failed list holds B and
\* nothing else, whatever else the registry holds.
C5_Original ==
  \A a, b \in 1..Len(dcalls) :
    TargetedAB(a, b) =>
      /\ lastError = dcalls[b].status
      /\ Range(failedClients) = {dcalls[b].id}

\* C6 as stated: a fan-out invokes the operation only on clients that are
\* ready to use and not ignored, also when a requested client is not in the
\* registry.
C6_Original ==
  \A k \in Invocations : Callable(dcalls[k].obj)

\* The client ids of the model's (addon, instance) pairs, and the two ids
\* that stand for "no client".
ClientIds ==
  {ClientIdFromAddonIdAndInstanceId(p[1], p[2]) : p \in Pairs}
    \cup {NoClientId, PVR_INVALID_CLIENT_ID}

\* C7 as stated: GetClient(id) returns a handle exactly for the ids that the
\* merge step has inserted and StopClient has not removed since, and the
\* registry holds one entry per such id.
C7_Original ==
  /\ \A id \in ClientIds : (GetClient(id) # NoObj) <=> (id \in inserted)
  /\ DOMAIN m_clientMap = inserted

\* The place of a client call in the order of a pass; 0 for the other calls.
Rank(op) ==
  CASE op = "Create" -> 1
    [] op = "ReCreate" -> 2
    [] op = "Destroy" -> 3
    [] OTHER -> 0

LoggedTimes(op) == Cardinality({k \in 1..Len(log[1]) : log[1][k].op = op})

\* C8: in the log of a pass no Create follows a ReCreate or a Destroy and no
\* ReCreate follows a Destroy; when the first ReCreate or Destroy is called,
\* Create has been called for the whole create list, and when the first
\* Destroy is called, StopClient has returned for the whole recreate list.
C8_CreateBeforeReCreateBeforeDestroy ==
  /\ \A i, j \in 1..Len(log[1]) :
       (Rank(log[1][i].op) > 0 /\ Rank(log[1][i].op) < Rank(log[1][j].op)) => i < j
  /\ (Logged("ReCreate") \/ Logged("Destroy"))
       => LoggedTimes("Create") = Len(addonsToCreate[1])
  /\ Logged("Destroy")
       => LoggedTimes("StopClient") > Len(addonsToReCreate[1])

\* C8 witness: a pass that has created, recreated and destroyed a client.
C8_Witness ==
  pc[1] = "done" /\ Logged("Create") /\ Logged("ReCreate") /\ Logged("Destroy")

\* C9 as stated, in the case it names: after UpdateAddons(addonID, instanceID)
\* has completed for an add-on that is no longer in the inventory, no client
\* of that add-on is in the registry.
C9_Original ==
  (pc[1] = "done" /\ args[1][1] \in AddonIds \ installed) =>
    \A k \in DOMAIN m_clientMap : ObjAddon(m_clientMap[k]) # args[1][1]

\* The registry holds a client of (addon, instance); it holds one that is
\* ready to use.
HasClient(addonID, instanceId) ==
  \E k \in DOMAIN m_clientMap :
    ObjAddon(m_clientMap[k]) = addonID /\ ObjInstance(m_clientMap[k]) = instanceId

HasReadyClient(addonID, instanceId) ==
  \E k \in DOMAIN m_clientMap :
    /\ ObjAddon(m_clientMap[k]) = addonID /\ ObjInstance(m_clientMap[k]) = instanceId
    /\ heap[m_clientMap[k]].ready

\* Scenario 1: the inventory holds the one instance of one add-on, the add-on
\* is disabled, and a pass for that add-on, or for all, has classified it.
Scenario1(addonID, instanceId) ==
  /\ installed = {addonID} /\ addonID \in disabled
  /\ knownInstances[addonID] = {instanceId}
  /\ Classified
  /\ args[1][1] \in {"", addonID}
  /\ args[1][2] \in {ADDON_SINGLETON_INSTANCE_ID, instanceId}

PassCompleted == pc[1] = "done" /\ (ListsEmpty \/ Logged("MgrStart"))

\* The keys under which the registry held a ready client of (addon, instance)
\* when the running pass classified.
ReadyKeysAtBegin(addonID, instanceId) ==
  {k \in atBegin[1].ready :
     /\ ObjAddon(atBegin[1].map[k]) = addonID
     /\ ObjInstance(atBegin[1].map[k]) = instanceId}

\* Scenario 2: a pass that classifies is running; when it began, the add-on
\* was enabled, the instance was known, its "enabled" setting was off and the
\* registry held a ready client of it.
Scenario2(addonID, instanceId) ==
  /\ pc[1] \notin {"idle", "aborted"} /\ ~ReturnsEarly(args[1][1])
  /\ instanceId # ADDON_SINGLETON_INSTANCE_ID
  /\ addonID \in atBegin[1].enabled
  /\ instanceId \in knownInstances[addonID]
  /\ ~GetSettingBool(addonID, instanceId)
  /\ ReadyKeysAtBegin(addonID, instanceId) # {}

\* C11 as stated: in scenario 2 the pass has the instance in its destroy list
\* and not in its recreate list, and once the pass has completed, the client's
\* id is not a key of the registry and the client has been destroyed.
C11_Original ==
  \A p \in Pairs :
    Scenario2(p[1], p[2]) =>
      /\ p \in Range(addonsToDestroy[1])
      /\ p \notin Range(addonsToReCreate[1])
      /\ PassCompleted =>
           \A k \in ReadyKeysAtBegin(p[1], p[2]) :
             /\ k \notin DOMAIN m_clientMap
             /\ ~ReadyToUse(atBegin[1].map[k])
             /\ GetID(atBegin[1].map[k]) = PVR_INVALID_CLIENT_ID


\* The jobs of the last ConnectionStateChange call that notify the user.
Notifications == {k \in 1..Len(eventLogJobs) : eventLogJobs[k].bNotify}

\* The last call was for a client's change from `previous` to `newState`.
Changed(previous, newState) ==
  /\ lastChange.client # NoClient
  /\ lastChange.previous = previous
  /\ lastChange.newState = newState

\* C12: a change to SERVER_UNREACHABLE or to CONNECTED from UNKNOWN or from
\* CONNECTING adds a job that does not notify the user, so does every change
\* to CONNECTING; a change to SERVER_UNREACHABLE from CONNECTED adds a job,
\* for that client, that notifies the user of an error.
C12_FirstReportAndConnectingNotNotified ==
  /\ \A previous \in {"UNKNOWN", "CONNECTING"}, newState \in {"SERVER_UNREACHABLE", "CONNECTED"} :
       Changed(previous, newState) => (Len(eventLogJobs) = 1 /\ Notifications = {})
  /\ \A previous \in PVR_CONNECTION_STATE \cup {OutOfRangeState} :
       Changed(previous, "CONNECTING") => (Len(eventLogJobs) = 1 /\ Notifications = {})
  /\ Changed("CONNECTED", "SERVER_UNREACHABLE") =>
       /\ Len(eventLogJobs) = 1 /\ Notifications = {1}
       /\ eventLogJobs[1].client = lastChange.client
       /\ eventLogJobs[1].bError

\* C12 witness (scenario 4): a client whose first report was not notified is
\* connected and then reports SERVER_UNREACHABLE, and the user is notified.
C12_Witness ==
  /\ Changed("CONNECTED", "SERVER_UNREACHABLE")
  /\ connState[lastChange.client] = [prev |-> "CONNECTED", state |-> "SERVER_UNREACHABLE"]
  /\ Notifications = {1}


\* The clients the fan-out has invoked, as <<id, client>>, in the order of the
\* invocations; the statuses they returned.
InvokedSeq ==
  LET calls == SelectSeq(dcalls, LAMBDA c : c.op = "call")
  IN [k \in 1..Len(calls) |-> <<calls[k].id, calls[k].obj>>]

FailureSeq == SelectSeq(dcalls, LAMBDA c : c.op = "call" /\ IsFailure(c.status))

\* What ForCreatedClients returns on the present registry for the operation
\* whose results the fan-out got: the aggregate status and the failed list.
ForCreatedClientsStatus ==
  IF FailureSeq = <<>> THEN "NO_ERROR" ELSE FailureSeq[Len(FailureSeq)].status

ForCreatedClientsFailed ==
  GetCallableClients[2] \o [k \in 1..Len(FailureSeq) |-> FailureSeq[k].id]

\* C13: a fan-out over the created clients, whether called as
\* ForCreatedClients or as ForClients with an empty list, invokes the clients
\* GetCallableClients returns for the registry state, in key order, and
\* returns the aggregate status and the failed list ForCreatedClients returns
\* for it: the two calls invoke the same clients and return the same results.
C13_EmptyForClientsIsForCreatedClients ==
  \A fn \in {"ForCreatedClients", "ForClients"} :
    (FanOutDone /\ dfn = fn /\ dreq = <<>>) =>
      /\ InvokedSeq = GetCallableClients[1]
      /\ lastError = ForCreatedClientsStatus
      /\ failedClients = ForCreatedClientsFailed

\* C13 witness: ForClients with an empty list has invoked two clients, one of
\* which failed, and reports a third id that it did not invoke.
C13_Witness ==
  /\ FanOutDone /\ dfn = "ForClients" /\ dreq = <<>>
  /\ Len(InvokedSeq) = 2 /\ Len(FailureSeq) = 1
  /\ GetCallableClients[2] # <<>>


\* C14 as stated: the derivation returns an id of at least 1 for every
\* (addon, instance), whatever the hash truncates to, and IsKnownClient
\* holds for every client in the registry.
C14_Original ==
  /\ \A p \in Pairs :
       ~Aborts(p[1], p[2]) /\ ClientIdFromAddonIdAndInstanceId(p[1], p[2]) >= 1
  /\ \A k \in DOMAIN m_clientMap :
       IsKnownClient(ObjAddon(m_clientMap[k]), ObjInstance(m_clientMap[k]))


\* The id lines 42-47 make of the hash of a string.
DerivedFrom(str) ==
  LET iClientId == StaticCastInt(hasher[str])
  IN IF iClientId < 0 THEN Negate(iClientId) ELSE iClientId

StopClientTarget ==
  IF pc[1] = "recreate" THEN addonsToReCreate[1][idx[1]] ELSE addonsToDestroy[1][idx[1]]

\* C16 as stated, for the StopClient calls of a pass: the call returns true
\* exactly when the registry held a client of the pair, and when it held none
\* the call leaves the registry as it was and calls ReCreate and Destroy on
\* no client.
C16_Original ==
  [][pc[1] \in {"recreate", "destroy"} =>
       LET e == StopClientTarget
           returned == log'[1][Len(log'[1])]
       IN /\ returned.op = "StopClient"
          /\ (returned.res = "true") <=> HasClient(e[1], e[2])
          /\ ~HasClient(e[1], e[2]) =>
               (m_clientMap' = m_clientMap /\ Len(log'[1]) = Len(log[1]) + 1)]_vars


\* The step is an invocation of the fan-out's operation on a client.
Invokes(o) ==
  /\ Len(dcalls') = Len(dcalls) + 1
  /\ dcalls'[Len(dcalls')].op = "call"
  /\ dcalls'[Len(dcalls')].obj = o

\* The running pass has called StopClient without restart for the client, and
\* the call has destroyed it.
DestroyedByPass(o) ==
  \E k \in 1..Len(log[1]) :
    /\ log[1][k].op = "Destroy"
    /\ <<log[1][k].addon, log[1][k].inst, log[1][k].gen>> = o

\* C17 as stated: while a pass that destroys clients (StopClient without
\* restart) runs concurrently with a fan-out over clients taken from the
\* registry, the fan-out does not invoke the operation on a client the pass
\* has destroyed: at the moment of the invocation the client is ready to use.
C17_Original ==
  [][\A o \in Objs : (Invokes(o) /\ DestroyedByPass(o)) => ReadyToUse(o)]_vars


\* ForClients runs, or has run, its loop over a non-empty list of clients.
OverRequested == dfn = "ForClients" /\ dreq # <<>> /\ dpc \in {"requested", "done"}

\* The registry keys whose client is ready to use and not ignored and that no
\* requested client has as its id.
NotParticipating ==
  {key \in DOMAIN m_clientMap :
     /\ Callable(m_clientMap[key])
     /\ \A k \in 1..Len(dreq) : GetID(dreq[k]) # key}

EnabledInventory ==
  {p \in Pairs : p[1] \in installed \ disabled /\ p[2] \in knownInstances[p[1]]}

\* The clients the registry returns for the ids derived for EnabledInventory.
ClientsOfEnabledInventory ==
  {GetClient(ClientIdFromAddonIdAndInstanceId(p[1], p[2])) : p \in EnabledInventory} \ {NoObj}

\* The clients a fan-out has invoked; the ids it reported before it invoked
\* any client.
InvokedClients == {dcalls[k].obj : k \in Invocations}

ReportedBeforeInvoking ==
  {failedClients[k] : k \in 1..(Len(failedClients) - Len(FailureSeq))}

ErrorInvocations ==
  {k \in Invocations : dcalls[k].status \notin {"NO_ERROR", "NOT_IMPLEMENTED"}}

LastOf(S) == CHOOSE k \in S : \A j \in S : j <= k

\* C20: a fan-out returns "no error" if and only if no invoked client
\* returned an error, however many clients it skipped; otherwise it returns
\* the status of the last invoked client that returned an error, and the id of
\* every client that returned an error is in the failed-client list.
C20_AggregateIsLastErrorOfInvoked ==
  FanOutDone =>
    /\ (lastError = "NO_ERROR") <=> (ErrorInvocations = {})
    /\ ErrorInvocations # {} => lastError = dcalls[LastOf(ErrorInvocations)].status
    /\ \A k \in ErrorInvocations : dcalls[k].id \in Range(failedClients)

\* C20 witness: a fan-out has returned after two invoked clients returned
\* different errors, and it reported an id without invoking a client for it.
C20_Witness ==
  /\ FanOutDone
  /\ \E j, k \in ErrorInvocations : j < k /\ dcalls[j].status # dcalls[k].status
  /\ ReportedBeforeInvoking # {}


\* The Create calls and the StopClient calls of the running pass, in order.
CreatesOfPass == SelectSeq(log[1], LAMBDA c : c.op = "Create")
StopClientsOfPass == SelectSeq(log[1], LAMBDA c : c.op = "StopClient")

PermanentFailures ==
  {k \in 1..Len(log[1]) :
     log[1][k].op = "Create" /\ log[1][k].res = "PERMANENT_FAILURE"}

\* C21: a Create that returns permanent failure is followed by the disabling
\* of the client's add-on and by one event, a Create that returns another
\* status by neither; the add-ons a pass disables are those whose Create
\* failed permanently; and a pass that has called PVRManager.Start has called
\* Create on every client of its create list and then StopClient for every
\* entry of its recreate list and of its destroy list, in order, whatever the
\* Creates returned.
C21_PermanentFailureDisablesAndBatchContinues ==
  /\ \A k \in 1..Len(log[1]) :
       log[1][k].op = "Create" =>
         IF k \in PermanentFailures
         THEN /\ k + 2 <= Len(log[1])
              /\ log[1][k + 1].op = "DisableAddon"
              /\ log[1][k + 1].addon = log[1][k].addon
              /\ log[1][k + 2].op = "EventLog"
              /\ log[1][k].addon \in disabled
         ELSE k = Len(log[1]) \/ log[1][k + 1].op \notin {"DisableAddon", "EventLog"}
  /\ LoggedTimes("DisableAddon") = Cardinality(PermanentFailures)
  /\ LoggedTimes("EventLog") = Cardinality(PermanentFailures)
  /\ disabled \cap atBegin[1].enabled = {log[1][k].addon : k \in PermanentFailures}
  /\ Logged("MgrStart") =>
       /\ [k \in 1..Len(CreatesOfPass) |->
             <<CreatesOfPass[k].addon, CreatesOfPass[k].inst, CreatesOfPass[k].gen>>]
            = [k \in 1..Len(addonsToCreate[1]) |-> addonsToCreate[1][k][1]]
       /\ [k \in 1..Len(StopClientsOfPass) |->
             <<StopClientsOfPass[k].addon, StopClientsOfPass[k].inst>>]
            = addonsToReCreate[1] \o addonsToDestroy[1]
       /\ \A i, j \in 1..Len(log[1]) :
            (log[1][i].op = "Create" /\ log[1][j].op = "StopClient") => i < j

\* C21 witness: a pass has called PVRManager.Start after the first Create of
\* its create list returned permanent failure, a later one another failure,
\* and it had a client to stop.
C21_Witness ==
  /\ Logged("MgrStart")
  /\ Len(CreatesOfPass) >= 2
  /\ CreatesOfPass[1].res = "PERMANENT_FAILURE"
  /\ \E k \in 2..Len(CreatesOfPass) : CreatesOfPass[k].res = "LOST_CONNECTION"
  /\ StopClientsOfPass # <<>>


\* The add-ons with an instance whose Create failed permanently in an earlier
\* pass and that have been disabled ever since.
PermanentlyFailedAddons == {p[1] : p \in permanentlyFailed}

\* C22 (as amended): after Create of an add-on's client has returned
\* permanent failure in some pass, and for as long as the add-on stays
\* disabled, no later pass calls Create or ReCreate on a client of that
\* add-on, and none calls Create, ReCreate or Destroy on the client whose
\* Create failed; a later pass does call Destroy on the add-on's other
\* clients that are ready to use.
C22_PermanentlyFailedNotRetried ==
  \A k \in 1..Len(log[1]) :
    /\ log[1][k].op \in {"Create", "ReCreate"} =>
         log[1][k].addon \notin PermanentlyFailedAddons
    /\ log[1][k].op \in {"Create", "ReCreate", "Destroy"} =>
         <<log[1][k].addon, log[1][k].inst, log[1][k].gen>> \notin permanentlyFailed
    /\ (log[1][k].op = "Destroy" /\ log[1][k].addon \in PermanentlyFailedAddons) =>
         \E key \in atBegin[1].ready :
           atBegin[1].map[key] = <<log[1][k].addon, log[1][k].inst, log[1][k].gen>>

\* C22 witness: a pass has run to its end while an add-on was disabled after
\* the permanent failure of one of its clients; that client is still
\* registered, and the pass has destroyed the client of another instance of
\* the add-on.
C22_Witness ==
  /\ PassCompleted
  /\ \E p \in permanentlyFailed :
       /\ p \in Registered
       /\ \E k \in 1..Len(log[1]) :
            /\ log[1][k].op = "Destroy"
            /\ log[1][k].addon = p[1] /\ log[1][k].inst # p[2]

\* C22 as stated: after Create of an add-on's client has returned permanent
\* failure in some pass, and for as long as the add-on stays disabled, no
\* later pass calls Create, ReCreate or Destroy on a client of that add-on.
C22_Original ==
  \A k \in 1..Len(log[1]) :
    log[1][k].op \in {"Create", "ReCreate", "Destroy"} =>
      log[1][k].addon \notin PermanentlyFailedAddons


\* The clients that were registered but not ready to use when the running
\* pass classified, their instance being known, its add-on enabled and its
\* "enabled" setting on.
NotReadyAtBegin ==
  {atBegin[1].map[k] : k \in DOMAIN atBegin[1].map \ atBegin[1].ready}

EnabledNotReadyAtBegin ==
  {o \in NotReadyAtBegin :
     /\ ObjAddon(o) \in atBegin[1].enabled
     /\ ObjInstance(o) \in knownInstances[ObjAddon(o)]
     /\ InstanceSettingOn(ObjAddon(o), ObjInstance(o))}

\* The client objects in the create list of the running pass.
ClientsToCreate == {e[1] : e \in Range(addonsToCreate[1])}

\* C23 as stated, for the passes that classify: a client that is registered
\* and not ready to use, of an enabled instance, is in the create list of the
\* pass, no other client object is in the list for its instance, and the
\* pass calls Create on it.
C23_Original ==
  (pc[1] \notin {"idle", "aborted"} /\ ~ReturnsEarly(args[1][1])) =>
    \A o \in EnabledNotReadyAtBegin :
      /\ o \in ClientsToCreate
      /\ \A c \in ClientsToCreate :
           (ObjAddon(c) = ObjAddon(o) /\ ObjInstance(c) = ObjInstance(o)) => c = o
      /\ Logged("MgrStart") =>
           \E k \in 1..Len(log[1]) :
             /\ log[1][k].op = "Create"
             /\ <<log[1][k].addon, log[1][k].inst, log[1][k].gen>> = o


\* The running pass was triggered for an instance that is not among the known
\* instances of its add-on, the add-on being in the inventory.
TriggeredForRemovedInstance ==
  /\ pc[1] \notin {"idle", "aborted"}
  /\ args[1][1] \in installed
  /\ args[1][2] \notin knownInstances[args[1][1]]

\* C24 as stated: a pass triggered for an instance that is no longer known
\* has the instance neither in its create list nor in its recreate list; if a
\* ready client of the instance was registered, the instance is in the
\* destroy list and the registry holds no client of it once the pass has
\* completed.
C24_Original ==
  TriggeredForRemovedInstance =>
    LET addonID == args[1][1]
        instanceId == args[1][2]
    IN /\ \A c \in ClientsToCreate :
            <<ObjAddon(c), ObjInstance(c)>> # <<addonID, instanceId>>
       /\ <<addonID, instanceId>> \notin Range(addonsToReCreate[1])
       /\ ReadyKeysAtBegin(addonID, instanceId) # {} =>
            /\ <<addonID, instanceId>> \in Range(addonsToDestroy[1])
            /\ PassCompleted => ~HasClient(addonID, instanceId)


\* The entries of the running pass's log that act on clients or the registry.
ActionsOfPass ==
  {k \in 1..Len(log[1]) :
     log[1][k].op \in {"Create", "ReCreate", "Destroy", "StopClient", "Merge"}}

StopBeforeActions ==
  /\ LoggedTimes("MgrStop") <= 1
  /\ \A k \in ActionsOfPass : \E j \in 1..(k - 1) : log[1][j].op = "MgrStop"
  /\ (pc[1] \notin {"idle", "stop", "aborted"} /\ ~ListsEmpty) => Logged("MgrStop")

StartOnceAfterActionsAndMerge ==
  /\ LoggedTimes("MgrStart") <= 1
  /\ (pc[1] = "done" /\ ~ListsEmpty) => Logged("MgrStart")
  /\ Logged("MgrStart") =>
       /\ log[1][Len(log[1])].op = "MgrStart"
       /\ Logged("MgrStop")
       /\ LoggedTimes("Create") = Len(addonsToCreate[1])
       /\ LoggedTimes("StopClient") = Len(addonsToReCreate[1]) + Len(addonsToDestroy[1])
       /\ addonsToCreate[1] # <<>> =>
            /\ Logged("Merge")
            /\ \A e \in Range(addonsToCreate[1]) : e[2] \in DOMAIN m_clientMap

\* C25: in a pass with a non-empty list PVRManager.Stop is called before the
\* first Create, ReCreate or Destroy, PVRManager.Start is called exactly once,
\* after the last action and after the created clients have been merged into
\* the registry, and a pass that has called Stop eventually calls Start.
C25_StopBeforeStartAfterAndStartFollows ==
  /\ [](StopBeforeActions /\ StartOnceAfterActionsAndMerge)
  /\ (Logged("MgrStop") ~> Logged("MgrStart"))

\* C25 witness: a pass that created, recreated and destroyed clients has
\* called PVRManager.Start.
C25_Witness ==
  /\ Logged("MgrStart")
  /\ Logged("Create") /\ Logged("ReCreate") /\ Logged("Destroy")


\* The (addon, instance) pairs of the inventory: the known instances of the
\* add-ons the add-on manager has, enabled or not.
Inventory == {p \in Pairs : p[1] \in installed /\ p[2] \in knownInstances[p[1]]}

\* Two pairs of the inventory have the same derived id, and the registry has
\* that id as a key.
CollisionOnRegisteredKey ==
  \E p, q \in Inventory :
    /\ p # q
    /\ ClientIdFromAddonIdAndInstanceId(p[1], p[2])
         = ClientIdFromAddonIdAndInstanceId(q[1], q[2])
    /\ ClientIdFromAddonIdAndInstanceId(p[1], p[2]) \in DOMAIN m_clientMap

\* C26 (as amended): in every state the key of each registry entry is the id
\* derived from the add-on and instance of the client stored under it, the
\* scan of the stored clients (GetClientId) returns that key for the pair,
\* and no pair is held under two keys.  Two pairs of the inventory can have
\* the same derived id; the registry then holds the client of one of them
\* only.
C26_KeyIsDerivedIdOfStoredClient ==
  /\ \A k \in DOMAIN m_clientMap :
       LET o == m_clientMap[k]
       IN /\ k = ClientIdFromAddonIdAndInstanceId(ObjAddon(o), ObjInstance(o))
          /\ GetClientId(ObjAddon(o), ObjInstance(o)) = k
  /\ \A j, k \in DOMAIN m_clientMap :
       (/\ ObjAddon(m_clientMap[j]) = ObjAddon(m_clientMap[k])
        /\ ObjInstance(m_clientMap[j]) = ObjInstance(m_clientMap[k])) => j = k
  /\ \A p, q \in Pairs :
       (/\ p # q
        /\ ClientIdFromAddonIdAndInstanceId(p[1], p[2])
             = ClientIdFromAddonIdAndInstanceId(q[1], q[2]))
         => ~(HasClient(p[1], p[2]) /\ HasClient(q[1], q[2]))

\* C26 witness: two instances of the inventory have the same derived id, a
\* pass that had both in its create list has returned, and the registry holds
\* the client of one of them under that id.
C26_Witness ==
  /\ pc[1] = "idle"
  /\ CollisionOnRegisteredKey
  /\ \E p \in Inventory : ~HasClient(p[1], p[2])

\* C26 as stated: the key of each registry entry is the id derived from the
\* pair of the client stored under it, GetClientId agrees with it, and no two
\* pairs of the inventory are mapped to the same registry key.
C26_Original ==
  /\ \A k \in DOMAIN m_clientMap :
       LET o == m_clientMap[k]
       IN /\ k = ClientIdFromAddonIdAndInstanceId(ObjAddon(o), ObjInstance(o))
          /\ GetClientId(ObjAddon(o), ObjInstance(o)) = k
  /\ ~CollisionOnRegisteredKey


\* What pass t has logged.
LoggedBy(t, op) == \E k \in 1..Len(log[t]) : log[t][k].op = op

\* Create has been called on the client object and Destroy has not been
\* called on it since.
Created(o) == heap[o].live /\ heap[o].status \in ADDON_STATUS

\* C27 as stated: when a pass has merged its create list and has called
\* PVRManager.Start, every client of the list, on which it has called Create,
\* is in the registry or has been destroyed: the merge has skipped no client
\* that another pass created under the same id.
C27_Original ==
  \A t \in JobIds :
    (pc[t] = "done" /\ LoggedBy(t, "MgrStart")) =>
      \A e \in Range(addonsToCreate[t]) : e[1] \in Registered \/ ~Created(e[1])

\* Pass t is between its PVRManager.Stop and its PVRManager.Start.
BetweenStopAndStart(t) == LoggedBy(t, "MgrStop") /\ ~LoggedBy(t, "MgrStart")

\* The step is pass t's call of PVRManager.Start.
CallsStart(t) == pc[t] = "start" /\ pc'[t] = "done"

\* C28 as stated: no pass calls PVRManager.Start while another pass is
\* between its own PVRManager.Stop and PVRManager.Start.
C28_Original ==
  [][\A t, u \in JobIds : (t # u /\ CallsStart(t)) => ~BetweenStopAndStart(u)]_vars

=============================================================================
